---------------------------- MODULE Spec2Model ----------------------------
(***************************************************************************)
(* A model of bib_demand.py: the LitItem accessors, the two file parsers   *)
(* (RIS and Tricat) and the Bibliography set operations.                   *)
(*                                                                         *)
(* Text is modelled as a sequence of one-character strings, so that        *)
(* strip, replace, split, startswith and the tag pattern are computed      *)
(* character by character, the way the Python string methods compute them. *)
(* Python's None and a raised exception are the two one-element sequences  *)
(* NoneVal and Raised, which no text (made of single characters) equals.   *)
(***************************************************************************)
EXTENDS Integers, Sequences, FiniteSets, TLC

VARIABLES
    \* shared by the two parsers
    pc,             \* position of the running parser
    items,          \* the list of LitItem data dictionaries built so far
    \* Bibliography.__read_tricat_file
    all_lines,      \* f.readlines()
    line_number,    \* the cursor (0-based, as in the code)
    current_data,   \* the dictionary of the entry being accumulated
    iters,          \* number of iterations of the while loop entered so far
    consumed,       \* per line: how often an iteration consumed it
    \* Bibliography.__read_ris_file and LitItem.__extract_ris
    ris_data,       \* f.read()
    sections,       \* __split_ris(data)
    section_no,     \* number of sections already turned into a LitItem
    lines,          \* data.split('\n') of the section being scanned
    line_idx,       \* number of lines of it already scanned
    d,              \* the dictionary being built
    current_key,
    current_datum,
    \* Bibliography operations
    bibA,           \* self.items
    bibB,           \* other.items
    inter,          \* result of bibA.intersect(bibB)
    diff,           \* result of bibA.difference(bibB)
    out             \* result of unique, order_by or write_to_file on bibA

tricatVars == <<all_lines, line_number, current_data, iters, consumed>>
risVars == <<ris_data, sections, section_no, lines, line_idx, d, current_key, current_datum>>
bibVars == <<bibA, bibB, inter, diff, out>>
vars == <<pc, items, tricatVars, risVars, bibVars>>

---------------------------------------------------------------------------
(* Bounds of the model. *)

\* longest Tricat input, in lines
MaxLines == 4
\* cap on the iterations of the Tricat scan loop (above MaxLines, so that a
\* loop that runs too often is seen)
MaxIters == 6
\* longest RIS input, in lines
MaxRisLines == 4
\* longest Bibliography self.items
MaxItems == 3
\* longest Bibliography other.items
MaxOther == 2

---------------------------------------------------------------------------
(* Python values and string methods. *)

NoneVal == <<"<None>">>
Raised == <<"<raised>">>

Min(S) == CHOOSE x \in S : \A y \in S : x <= y
Max(S) == CHOOSE x \in S : \A y \in S : x >= y

\* the characters str.strip() removes
IsSpace(c) == c \in {" ", "\n", "\t"}

NonSpace(s) == {i \in 1..Len(s) : ~IsSpace(s[i])}

\* str.lstrip()
lstrip(s) == IF NonSpace(s) = {} THEN <<>> ELSE SubSeq(s, Min(NonSpace(s)), Len(s))

\* str.strip()
strip(s) == IF NonSpace(s) = {} THEN <<>> ELSE SubSeq(s, Min(NonSpace(s)), Max(NonSpace(s)))

\* str.startswith(prefix)
startswith(s, prefix) == Len(s) >= Len(prefix) /\ SubSeq(s, 1, Len(prefix)) = prefix

\* str.find(sub), 1-based, 0 when sub does not occur
find(s, sub) ==
    LET hits == {i \in 1..(Len(s) - Len(sub) + 1) : SubSeq(s, i, i + Len(sub) - 1) = sub}
    IN  IF hits = {} THEN 0 ELSE Min(hits)

\* str.replace(old, new, 1)
replace_first(s, old, new) ==
    LET i == find(s, old)
    IN  IF i = 0 THEN s
        ELSE SubSeq(s, 1, i - 1) \o new \o SubSeq(s, i + Len(old), Len(s))

\* str.replace(old, new): every occurrence, left to right, not overlapping
RECURSIVE replace(_, _, _)
replace(s, old, new) ==
    LET i == find(s, old)
    IN  IF i = 0 THEN s
        ELSE SubSeq(s, 1, i - 1) \o new \o replace(SubSeq(s, i + Len(old), Len(s)), old, new)

\* str.split(sep)
RECURSIVE split(_, _)
split(s, sep) ==
    LET i == find(s, sep)
    IN  IF i = 0 THEN <<s>>
        ELSE <<SubSeq(s, 1, i - 1)>> \o split(SubSeq(s, i + Len(sep), Len(s)), sep)

\* sep.join(parts)
RECURSIVE join(_, _)
join(parts, sep) ==
    IF parts = <<>> THEN <<>>
    ELSE IF Len(parts) = 1 THEN parts[1]
    ELSE parts[1] \o sep \o join(Tail(parts), sep)

\* dict.get(key, default)
dict_get(dict, key, default) == IF key \in DOMAIN dict THEN dict[key] ELSE default

\* dict[key] = value
dict_set(dict, key, value) ==
    [k \in DOMAIN dict \cup {key} |-> IF k = key THEN value ELSE dict[k]]

\* {}
EmptyDict == [k \in {} |-> <<>>]

NL == <<"\n">>
SP == <<" ">>

---------------------------------------------------------------------------
(* LitItem: the data dictionary and its accessors. *)

KeyA1 == <<"A", "1">>
KeyA2 == <<"A", "2">>
KeyT1 == <<"T", "1">>
KeyPY == <<"P", "Y">>

kein_Titel == <<"k", "e", "i", "n", " ", "T", "i", "t", "e", "l">>
kein_Jahr == <<"k", "e", "i", "n", " ", "J", "a", "h", "r">>
kein_Autor == <<"k", "e", "i", "n", " ", "A", "u", "t", "o", "r">>

\* value.replace('\n', ' ').strip(); None has no replace method
collapse(value) == IF value = NoneVal THEN Raised ELSE strip(replace(value, NL, SP))

get_title(data) == collapse(dict_get(data, KeyT1, kein_Titel))

get_year(data) ==
    LET year == dict_get(data, KeyPY, kein_Jahr)
    IN  IF year = NoneVal \/ year = <<>> THEN kein_Jahr
        ELSE strip(replace(replace(year, <<"[">>, <<>>), <<"]">>, <<>>))

get_author(data) ==
    LET author == collapse(dict_get(data, KeyA1, <<>>))
    IN  IF author = Raised THEN Raised
        ELSE IF author = <<>> THEN collapse(dict_get(data, KeyA2, kein_Autor))
        ELSE author

\* LitItem.__str__
item_str(data) ==
    IF get_author(data) = Raised \/ get_title(data) = Raised THEN Raised
    ELSE get_author(data) \o NL \o get_title(data) \o NL \o get_year(data) \o NL

\* LitItem.__extract_tricat: the keys of the Tricat working dictionary are the
\* strings "author", "title", "subtitle", "year"
extract_tricat(data) ==
    (KeyA1 :> dict_get(data, "author", NoneVal))
    @@ (KeyT1 :> (dict_get(data, "title", <<>>) \o SP \o dict_get(data, "subtitle", <<>>)))
    @@ (KeyPY :> dict_get(data, "year", NoneVal))

---------------------------------------------------------------------------
(* Bibliography.__read_tricat_file and __accumulate_tricat_lines. *)

Jahr == <<"J", "a", "h", "r">>
Haupttitel == <<"H", "a", "u", "p", "t", "t", "i", "t", "e", "l">>
Titelzusatz == <<"T", "i", "t", "e", "l", "z", "u", "s", "a", "t", "z">>
Person1 == <<"1", ".", " ", "P", "e", "r", "s", "o", "n">>
Person1Fam == <<"1", ".", " ", "P", "e", "r", "s", "o", "n", "/", "F", "a", "m", ".">>

\* The lines a Tricat input is drawn from, each as readlines() returns it.
LineJahr == <<"J", "a", "h", "r", " ", "2", "0", "1", "9", "\n">>
LineHaupttitel == <<"H", "a", "u", "p", "t", "t", "i", "t", "e", "l", " ", "B", "a", "r", "\n">>
LineTitelzusatz == <<"T", "i", "t", "e", "l", "z", "u", "s", "a", "t", "z", " ", "B", "a", "z", "\n">>
LinePerson == <<"1", ".", " ", "P", "e", "r", "s", "o", "n", " ", "S", "m", "i", "t", "h", ",", " ", "J", ".", "\n">>
LinePersonFam == <<"1", ".", " ", "P", "e", "r", "s", "o", "n", "/", "F", "a", "m", ".", " ", "D", "o", "e", "\n">>
LineBlank == <<"\n">>
LineOther == <<"O", "r", "t", " ", "B", "e", "r", "l", "i", "n", "\n">>

TricatLines ==
    {LineJahr, LineHaupttitel, LineTitelzusatz, LinePerson, LinePersonFam, LineBlank, LineOther}

TricatInputs == UNION {[1..n -> TricatLines] : n \in 0..MaxLines}

\* line.lstrip().startswith(label)
is_label(line, label) == startswith(lstrip(line), label)

\* the body of the helper's loop: the label is removed, the line is stripped
clean_tricat_line(line) ==
    LET unlabelled ==
            IF is_label(line, Haupttitel) THEN replace_first(line, Haupttitel, <<>>)
            ELSE IF is_label(line, Titelzusatz) THEN replace_first(line, Titelzusatz, <<>>)
            ELSE IF is_label(line, Person1) THEN replace(line, Person1Fam, <<>>)
            ELSE line
    IN  replace(strip(unlabelled), NL, <<>>)

\* lines[line_number] with line_number = len(lines) raises IndexError
IndexError == [ok |-> FALSE, data |-> <<>>, offset |-> 0]

\* The helper's while loop. lines[line_number] is read before line_number < count
\* is tested, so the loop never ends on the second condition.
RECURSIVE accumulate_loop(_, _, _)
accumulate_loop(lines_, line_number_, data) ==
    IF line_number_ >= Len(lines_) THEN IndexError
    ELSE IF strip(lines_[line_number_ + 1]) = <<>>
         THEN [ok |-> TRUE, data |-> join(data, SP), offset |-> Len(data)]
    ELSE accumulate_loop(lines_, line_number_ + 1,
                         Append(data, clean_tricat_line(lines_[line_number_ + 1])))

\* a helper that reports one line less than it consumed
accumulate_short_count(lines_, line_number_) ==
    LET r == accumulate_loop(lines_, line_number_, <<>>)
    IN  IF r.ok THEN [r EXCEPT !.offset = r.offset - 1] ELSE r

accumulate_tricat_lines(lines_, line_number_) == accumulate_loop(lines_, line_number_, <<>>)

\* before the file is read
InitTricat ==
    /\ pc = "open"
    /\ all_lines = <<>>
    /\ line_number = 0
    /\ current_data = EmptyDict
    /\ items = <<>>
    /\ iters = 0
    /\ consumed = <<>>
    /\ ris_data = <<>> /\ sections = <<>> /\ section_no = 0 /\ lines = <<>>
    /\ line_idx = 0 /\ d = EmptyDict /\ current_key = <<>> /\ current_datum = <<>>
    /\ bibA = <<>> /\ bibB = <<>> /\ inter = <<>> /\ diff = <<>> /\ out = <<>>

\* all_lines = f.readlines(), with the cursor and the working dictionary set up
ReadLines ==
    /\ pc = "open"
    /\ \E input \in TricatInputs :
           /\ all_lines' = input
           /\ consumed' = [i \in 1..Len(input) |-> 0]
    /\ line_number' = 0
    /\ current_data' = EmptyDict
    /\ pc' = "scan"
    /\ UNCHANGED <<items, iters, risVars, bibVars>>

\* the while condition, and the line under the cursor
InLoop == pc = "scan" /\ line_number < Len(all_lines) /\ iters < MaxIters
line == all_lines[line_number + 1]

Consume(first, count) ==
    consumed' = [i \in DOMAIN consumed |->
                    IF first + 1 <= i /\ i <= first + count THEN consumed[i] + 1
                    ELSE consumed[i]]

\* a branch that calls the helper and stores its text under key
Accumulate(key, base) ==
    LET r == accumulate_tricat_lines(all_lines, line_number)
    IN  IF r.ok
        THEN /\ current_data' = dict_set(base, key, r.data)
             /\ line_number' = line_number + r.offset
             /\ Consume(line_number, r.offset)
             /\ pc' = "scan"
        ELSE /\ pc' = "error"
             /\ UNCHANGED <<current_data, line_number, consumed>>

ReadYear ==
    /\ InLoop
    /\ is_label(line, Jahr)
    /\ current_data' = dict_set(current_data, "year", strip(replace_first(line, Jahr, <<>>)))
    /\ line_number' = line_number + 1
    /\ Consume(line_number, 1)
    /\ iters' = iters + 1
    /\ UNCHANGED <<pc, items, all_lines, risVars, bibVars>>

ReadTitle ==
    /\ InLoop
    /\ ~is_label(line, Jahr)
    /\ is_label(line, Haupttitel)
    /\ Accumulate("title", current_data)
    /\ iters' = iters + 1
    /\ UNCHANGED <<items, all_lines, risVars, bibVars>>

ReadSubtitle ==
    /\ InLoop
    /\ ~is_label(line, Jahr)
    /\ ~is_label(line, Haupttitel)
    /\ is_label(line, Titelzusatz)
    /\ Accumulate("subtitle", current_data)
    /\ iters' = iters + 1
    /\ UNCHANGED <<items, all_lines, risVars, bibVars>>

\* '1. Person' starts a new item: what has been gathered so far is committed
ReadAuthor ==
    /\ InLoop
    /\ ~is_label(line, Jahr)
    /\ ~is_label(line, Haupttitel)
    /\ ~is_label(line, Titelzusatz)
    /\ is_label(line, Person1)
    /\ items' = IF DOMAIN current_data # {}
                THEN Append(items, extract_tricat(current_data))
                ELSE items
    /\ Accumulate("author", EmptyDict)
    /\ iters' = iters + 1
    /\ UNCHANGED <<all_lines, risVars, bibVars>>

SkipLine ==
    /\ InLoop
    /\ ~is_label(line, Jahr)
    /\ ~is_label(line, Haupttitel)
    /\ ~is_label(line, Titelzusatz)
    /\ ~is_label(line, Person1)
    /\ line_number' = line_number + 1
    /\ Consume(line_number, 1)
    /\ iters' = iters + 1
    /\ UNCHANGED <<pc, items, all_lines, current_data, risVars, bibVars>>

\* "Commit the last entry", after the loop
CommitLast ==
    /\ pc = "scan"
    /\ line_number >= Len(all_lines)
    /\ items' = Append(items, extract_tricat(current_data))
    /\ pc' = "done"
    /\ UNCHANGED <<all_lines, line_number, current_data, iters, consumed, risVars, bibVars>>

NextTricat == ReadLines \/ ReadYear \/ ReadTitle \/ ReadSubtitle \/ ReadAuthor \/ SkipLine \/ CommitLast

SpecTricat == InitTricat /\ [][NextTricat]_vars

---------------------------------------------------------------------------
(* Bibliography.__read_ris_file, __split_ris and LitItem.__extract_ris. *)

\* The lines a RIS input is drawn from; an input is some of them joined by
\* line breaks, so an empty line in the middle makes a section boundary.
RisT1 == <<"T", "1", " ", " ", "-", " ", "F", "o", "o">>
RisPY == <<"P", "Y", " ", " ", "-", " ", "2", "0", "2", "0">>
RisA1 == <<"A", "1", " ", " ", "-", " ", "J", "a", "n", "e", " ", "D", "o", "e">>
RisA2Empty == <<"A", "2", " ", " ", "-", " ">>
RisPYBrackets == <<"P", "Y", " ", " ", "-", " ", "[", "]">>
RisText == <<"B", "a", "r">>
RisEmpty == <<>>

RisLines == {RisT1, RisPY, RisA1, RisA2Empty, RisPYBrackets, RisText, RisEmpty}

RisInputs == {join(ls, NL) : ls \in UNION {[1..n -> RisLines] : n \in 0..MaxRisLines}}

\* data.split('\n\n')
split_ris(data) == split(data, <<"\n", "\n">>)

\* re.match('(\S\S)\s\s-(.*)', line): the match is anchored at the start of the
\* line only; a line holds no line break, so (.*) runs to its end
ris_match(line_) ==
    IF /\ Len(line_) >= 5
       /\ ~IsSpace(line_[1]) /\ ~IsSpace(line_[2])
       /\ IsSpace(line_[3]) /\ IsSpace(line_[4])
       /\ line_[5] = "-"
    THEN [matched |-> TRUE, key |-> SubSeq(line_, 1, 2), datum |-> SubSeq(line_, 6, Len(line_))]
    ELSE [matched |-> FALSE, key |-> <<>>, datum |-> <<>>]

\* a continuation line joined on without its line break
expand_without_break(datum, line_) == datum \o line_

\* current_datum += '\n'; current_datum += line
expand_datum(datum, line_) == datum \o NL \o line_

\* "Save previous section": if current_key: d[current_key] = current_datum
save_section(dict, key, datum) == IF key # <<>> THEN dict_set(dict, key, datum) ELSE dict

InitRis ==
    /\ ris_data \in RisInputs
    /\ sections = split_ris(ris_data)
    /\ section_no = 0
    /\ lines = <<>>
    /\ line_idx = 0
    /\ d = EmptyDict
    /\ current_key = <<>>
    /\ current_datum = <<>>
    /\ items = <<>>
    /\ pc = "sections"
    /\ all_lines = <<>> /\ line_number = 0 /\ current_data = EmptyDict
    /\ iters = 0 /\ consumed = <<>>
    /\ bibA = <<>> /\ bibB = <<>> /\ inter = <<>> /\ diff = <<>> /\ out = <<>>

\* LitItem(section): __extract_ris starts on the next section
StartSection ==
    /\ pc = "sections"
    /\ section_no < Len(sections)
    /\ lines' = split(sections[section_no + 1], NL)
    /\ line_idx' = 0
    /\ d' = EmptyDict
    /\ current_key' = <<>>
    /\ current_datum' = <<>>
    /\ pc' = "lines"
    /\ UNCHANGED <<items, ris_data, sections, section_no, tricatVars, bibVars>>

\* a line that matches the pattern begins a field
MatchLine ==
    /\ pc = "lines"
    /\ line_idx < Len(lines)
    /\ LET m == ris_match(lines[line_idx + 1])
       IN  /\ m.matched
           /\ d' = save_section(d, current_key, current_datum)
           /\ current_key' = m.key
           /\ current_datum' = m.datum
    /\ line_idx' = line_idx + 1
    /\ UNCHANGED <<pc, items, ris_data, sections, section_no, lines, tricatVars, bibVars>>

\* a line that does not match expands the field
ExpandLine ==
    /\ pc = "lines"
    /\ line_idx < Len(lines)
    /\ ~ris_match(lines[line_idx + 1]).matched
    /\ current_datum' = expand_datum(current_datum, lines[line_idx + 1])
    /\ line_idx' = line_idx + 1
    /\ UNCHANGED <<pc, items, ris_data, sections, section_no, lines, d, current_key,
                   tricatVars, bibVars>>

\* "The last section still has to be saved": d[current_key] = current_datum
SaveLast ==
    /\ pc = "lines"
    /\ line_idx = Len(lines)
    /\ d' = dict_set(d, current_key, current_datum)
    /\ items' = Append(items, d')
    /\ section_no' = section_no + 1
    /\ pc' = "sections"
    /\ UNCHANGED <<ris_data, sections, lines, line_idx, current_key, current_datum,
                   tricatVars, bibVars>>

\* return items
ReturnItems ==
    /\ pc = "sections"
    /\ section_no = Len(sections)
    /\ pc' = "done"
    /\ UNCHANGED <<items, risVars, tricatVars, bibVars>>

NextRis == StartSection \/ MatchLine \/ ExpandLine \/ SaveLast \/ ReturnItems

SpecRis == InitRis /\ [][NextRis]_vars

---------------------------------------------------------------------------
(* Bibliography: membership, intersect, difference, unique, order_by and   *)
(* write_to_file.                                                          *)

\* LitItems as the two parsers build them: two RIS items and three Tricat
\* items. The first two are the same work with differently written authors,
\* the third differs from them in the year alone, and the last is a Tricat
\* entry with a title line only.
ItemFooRis == (KeyT1 :> <<" ", "F", "o", "o">>) @@ (KeyPY :> <<" ", "2", "0", "2", "0">>) @@ (KeyA1 :> <<" ", "J", "a", "n", "e", " ", "D", "o", "e">>)
ItemFooTricat == (KeyA1 :> <<"D", "o", "e", ",", " ", "J", ".">>) @@ (KeyT1 :> <<"F", "o", "o", " ">>) @@ (KeyPY :> <<"2", "0", "2", "0">>)
ItemFoo2021 == (KeyT1 :> <<" ", "F", "o", "o">>) @@ (KeyPY :> <<" ", "2", "0", "2", "1">>) @@ (KeyA2 :> <<" ", "E", "d">>)
ItemBar == (KeyA1 :> <<"A", "b", "e", "l">>) @@ (KeyT1 :> <<"B", "a", "r", " ">>) @@ (KeyPY :> <<"2", "0", "2", "0">>)
ItemNoAuthor == (KeyA1 :> NoneVal) @@ (KeyT1 :> <<"B", "a", "z", " ">>) @@ (KeyPY :> NoneVal)

LitItems == {ItemFooRis, ItemFooTricat, ItemFoo2021, ItemBar, ItemNoAuthor}

\* the characters of the derived values, in code point order
Alphabet ==
    <<" ", ",", ".", "0", "1", "2", "3", "4", "5", "6", "7", "8", "9",
      "A", "B", "C", "D", "E", "F", "G", "H", "I", "J", "K", "L", "M",
      "N", "O", "P", "Q", "R", "S", "T", "U", "V", "W", "X", "Y", "Z",
      "a", "b", "c", "d", "e", "f", "g", "h", "i", "j", "k", "l", "m",
      "n", "o", "p", "q", "r", "s", "t", "u", "v", "w", "x", "y", "z">>

code_point(c) == CHOOSE i \in 1..Len(Alphabet) : Alphabet[i] = c

\* a < b for two str: the first differing character decides, else the length
str_less(a, b) ==
    LET n == Min({Len(a), Len(b)})
        differ == {i \in 1..n : a[i] # b[i]}
    IN  IF differ = {} THEN Len(a) < Len(b)
        ELSE code_point(a[Min(differ)]) < code_point(b[Min(differ)])

\* an equality that forgets the year
lit_eq_title_only(a, b) == get_title(a) = get_title(b)

\* LitItem.__eq__
lit_eq(a, b) == get_title(a) = get_title(b) /\ get_year(a) = get_year(b)

\* item in list: the list is scanned and each member compared with ==
list_contains(list, item) == \E i \in 1..Len(list) : lit_eq(item, list[i])

RECURSIVE filter_in(_, _, _)
filter_in(list, other, keep_members) ==
    IF list = <<>> THEN <<>>
    ELSE LET rest == filter_in(Tail(list), other, keep_members)
         IN  IF list_contains(other, Head(list)) = keep_members
             THEN <<Head(list)>> \o rest
             ELSE rest

\* [item for item in self.items if item in other.items]
intersect(self_items, other_items) == filter_in(self_items, other_items, TRUE)

\* a difference written with the condition of intersect
difference_keeps_common(self_items, other_items) == filter_in(self_items, other_items, TRUE)

\* [item for item in self.items if item not in other.items]
difference(self_items, other_items) == filter_in(self_items, other_items, FALSE)

RECURSIVE unique_loop(_, _)
unique_loop(todo, unique_) ==
    IF todo = <<>> THEN unique_
    ELSE unique_loop(Tail(todo),
                     IF list_contains(unique_, Head(todo)) THEN unique_
                     ELSE Append(unique_, Head(todo)))

unique(self_items) == unique_loop(self_items, <<>>)

ValidAttrs == {"title", "author", "year"}

\* the key function order_by hands to sorted()
sort_key(item, attr) ==
    CASE attr = "title" -> get_title(item)
      [] attr = "author" -> get_author(item)
      [] attr = "year" -> get_year(item)

\* sorted(list, key=...): a stable sort, as an insertion sort that puts each
\* item behind the items whose key is not greater
RECURSIVE sorted(_, _)
sorted(list, attr) ==
    IF list = <<>> THEN <<>>
    ELSE LET front == sorted(SubSeq(list, 1, Len(list) - 1), attr)
             x == list[Len(list)]
             before == {i \in 1..Len(front) :
                            ~str_less(sort_key(x, attr), sort_key(front[i], attr))}
             p == Cardinality(before)
         IN  SubSeq(front, 1, p) \o <<x>> \o SubSeq(front, p + 1, Len(front))

NoResult == [op |-> "none", attr |-> "", ok |-> TRUE, items |-> <<>>, text |-> <<>>]

\* order_by: ValueError for an unknown attr; the key function's exception
\* leaves sorted() when an accessor raises
order_by(self_items, attr) ==
    IF attr \notin ValidAttrs
    THEN [op |-> "order_by", attr |-> attr, ok |-> FALSE, items |-> <<>>, text |-> <<>>]
    ELSE IF \E i \in 1..Len(self_items) : sort_key(self_items[i], attr) = Raised
    THEN [op |-> "order_by", attr |-> attr, ok |-> FALSE, items |-> <<>>, text |-> <<>>]
    ELSE [op |-> "order_by", attr |-> attr, ok |-> TRUE, items |-> sorted(self_items, attr),
          text |-> <<>>]

Digits == <<"0", "1", "2", "3", "4", "5", "6", "7", "8", "9">>

\* str(n) for n >= 0
RECURSIVE int_str(_)
int_str(n) == IF n < 10 THEN <<Digits[n + 1]>> ELSE int_str(n \div 10) \o <<Digits[(n % 10) + 1]>>

RECURSIVE map_item_str(_)
map_item_str(list) ==
    IF list = <<>> THEN <<>> ELSE <<item_str(Head(list))>> \o map_item_str(Tail(list))

\* Bibliography.__str__: '\n'.join([str(item) for item in self.items])
bib_str(self_items) ==
    IF \E i \in 1..Len(self_items) : item_str(self_items[i]) = Raised THEN Raised
    ELSE join(map_item_str(self_items), NL)

\* write_to_file: the header is written first, then str(self); when str(self)
\* raises, the file keeps the header alone
write_to_file(self_items, header) ==
    LET head == header \o <<" ", "(">> \o int_str(Len(self_items)) \o <<")", "\n", "\n">>
        body == bib_str(self_items)
    IN  IF body = Raised
        THEN [op |-> "write", attr |-> "", ok |-> FALSE, items |-> <<>>, text |-> head]
        ELSE [op |-> "write", attr |-> "", ok |-> TRUE, items |-> <<>>, text |-> head \o body]

Headers == {<<>>, <<"X">>}
Attrs == ValidAttrs \cup {"publisher"}

NotComputed == [done |-> FALSE, items |-> <<>>]

ParserIdle ==
    /\ pc = "idle" /\ items = <<>>
    /\ all_lines = <<>> /\ line_number = 0 /\ current_data = EmptyDict
    /\ iters = 0 /\ consumed = <<>>
    /\ ris_data = <<>> /\ sections = <<>> /\ section_no = 0 /\ lines = <<>>
    /\ line_idx = 0 /\ d = EmptyDict /\ current_key = <<>> /\ current_datum = <<>>

\* one Bibliography, for the operations that take no other
InitBib ==
    /\ bibA \in UNION {[1..n -> LitItems] : n \in 0..MaxItems}
    /\ bibB = <<>>
    /\ inter = NotComputed
    /\ diff = NotComputed
    /\ out = NoResult
    /\ ParserIdle

\* two Bibliographies, for intersect and difference
SetItems == {ItemFooRis, ItemFooTricat, ItemFoo2021}

InitSets ==
    /\ bibA \in UNION {[1..n -> SetItems] : n \in 0..MaxItems}
    /\ bibB \in UNION {[1..n -> SetItems] : n \in 0..MaxOther}
    /\ inter = NotComputed
    /\ diff = NotComputed
    /\ out = NoResult
    /\ ParserIdle

Unique ==
    /\ out' = [op |-> "unique", attr |-> "", ok |-> TRUE, items |-> unique(bibA), text |-> <<>>]
    /\ UNCHANGED <<pc, items, tricatVars, risVars, bibA, bibB, inter, diff>>

OrderBy ==
    /\ \E attr \in Attrs : out' = order_by(bibA, attr)
    /\ UNCHANGED <<pc, items, tricatVars, risVars, bibA, bibB, inter, diff>>

WriteToFile ==
    /\ \E header \in Headers : out' = write_to_file(bibA, header)
    /\ UNCHANGED <<pc, items, tricatVars, risVars, bibA, bibB, inter, diff>>

Intersect ==
    /\ inter' = [done |-> TRUE, items |-> intersect(bibA, bibB)]
    /\ UNCHANGED <<pc, items, tricatVars, risVars, bibA, bibB, diff, out>>

Difference ==
    /\ diff' = [done |-> TRUE, items |-> difference(bibA, bibB)]
    /\ UNCHANGED <<pc, items, tricatVars, risVars, bibA, bibB, inter, out>>

NextBib == Unique \/ OrderBy \/ WriteToFile

NextSets == Intersect \/ Difference

SpecBib == InitBib /\ [][NextBib]_vars

SpecSets == InitSets /\ [][NextSets]_vars

---------------------------------------------------------------------------
(* The properties checked.                                                 *)

\* Record equality as the specification states it: same title and same year
SameWork(a, b) == get_title(a) = get_title(b) /\ get_year(a) = get_year(b)

\* R is the subsequence of X at the positions S, in X's order
Rank(S, i) == Cardinality({j \in S : j <= i})
IsSubsequenceAt(R, X, S) ==
    /\ Len(R) = Cardinality(S)
    /\ \A i \in S : R[Rank(S, i)] = X[i]

\* C1: every Record of a finished fixed-field parse has author, title and
\* year accessors that return without raising, and an author or year the
\* entry does not have reads as its sentinel string.
C1_AccessorsNeverRaise ==
    pc = "done" =>
        \A k \in 1..Len(items) :
            /\ get_author(items[k]) # Raised
            /\ get_title(items[k]) # Raised
            /\ get_year(items[k]) # Raised
            /\ (items[k][KeyA1] = NoneVal => get_author(items[k]) = kein_Autor)
            /\ (items[k][KeyPY] = NoneVal => get_year(items[k]) = kein_Jahr)

HelperLabel(line_) ==
    is_label(line_, Haupttitel) \/ is_label(line_, Titelzusatz) \/ is_label(line_, Person1)

\* C2: the accumulation helper, called at a label line, always returns
\* normally, also when the field runs up to the last line of the input: the
\* parse never stops with an error.
C2_HelperStopsAtEndOfInput == pc # "error"

FirstOccurrences(X) == {i \in 1..Len(X) : \A j \in 1..(i - 1) : ~SameWork(X[j], X[i])}

\* C3: unique() is the subsequence of first occurrences under Record
\* equality: no two Records of the result are equal, every Record of the
\* input equals exactly one Record of the result, and the kept Records are
\* the earliest of their class, in the input's order.
C3_UniqueKeepsFirstOccurrences ==
    out.op = "unique" =>
        /\ IsSubsequenceAt(out.items, bibA, FirstOccurrences(bibA))
        /\ \A p, q \in 1..Len(out.items) :
               p # q => ~SameWork(out.items[p], out.items[q])
        /\ \A i \in 1..Len(bibA) :
               Cardinality({p \in 1..Len(out.items) : SameWork(out.items[p], bibA[i])}) = 1

\* C3 witness: a duplicate has been dropped, and two different works have been kept
C3_Witness ==
    /\ out.op = "unique"
    /\ Len(out.items) = 2
    /\ Len(bibA) = 3
    /\ bibA[1] # bibA[2]
    /\ SameWork(bibA[1], bibA[2])

InOther(X, Y) == {i \in 1..Len(X) : \E j \in 1..Len(Y) : SameWork(X[i], Y[j])}

\* C4: intersect keeps exactly the positions of A whose Record equals some
\* Record of B and difference exactly the other positions, both in A's order
\* and with A's duplicates, so the two lengths add up to len(A).
C4_IntersectDifferencePartition ==
    /\ inter.done => IsSubsequenceAt(inter.items, bibA, InOther(bibA, bibB))
    /\ diff.done =>
           IsSubsequenceAt(diff.items, bibA, (1..Len(bibA)) \ InOther(bibA, bibB))
    /\ (inter.done /\ diff.done) => Len(inter.items) + Len(diff.items) = Len(bibA)

\* C4 witness: both results are there, the intersection holds a duplicate of A
C4_Witness ==
    /\ inter.done /\ diff.done
    /\ Len(inter.items) = 2
    /\ inter.items[1] = inter.items[2]
    /\ Len(diff.items) = 1
    /\ Len(bibB) = 2

\* C5: for title, author and year alike, order_by returns a permutation of
\* the Collection whose keys do not decrease, and Records with the same key
\* keep their relative order.
C5_OrderBySortsStably ==
    (out.op = "order_by" /\ out.attr \in ValidAttrs) =>
        /\ out.ok
        /\ Len(out.items) = Len(bibA)
        /\ \A i \in 1..(Len(out.items) - 1) :
               ~str_less(sort_key(out.items[i + 1], out.attr), sort_key(out.items[i], out.attr))
        /\ \A i \in 1..Len(bibA) :
               LET SameKey(x) == sort_key(x, out.attr) = sort_key(bibA[i], out.attr)
               IN  SelectSeq(out.items, SameKey) = SelectSeq(bibA, SameKey)

ClaimNormalize(value) == strip(replace(value, NL, SP))

\* C6: year and author are never the empty string: year is the sentinel when
\* the raw year is absent or empty, and author is the normalized primary
\* author, else the normalized secondary author, else the sentinel, each only
\* if it is not empty.
C6_YearAndAuthorNeverEmpty ==
    \A k \in 1..Len(items) :
        LET primary == ClaimNormalize(dict_get(items[k], KeyA1, <<>>))
            secondary == ClaimNormalize(dict_get(items[k], KeyA2, <<>>))
        IN  /\ get_year(items[k]) # <<>>
            /\ get_author(items[k]) # <<>>
            /\ get_author(items[k]) =
                   IF primary # <<>> THEN primary
                   ELSE IF secondary # <<>> THEN secondary
                   ELSE kein_Autor

C7Example == <<LineJahr, LineHaupttitel, LinePerson>>

\* C7: the lines `Jahr 2019`, `Haupttitel Bar`, `1. Person Smith, J.`,
\* committed by a blank line, by the next primary-author line or by the end
\* of the input, parse without error to a Record with year "2019", title
\* "Bar" and author "Smith, J.".
C7_ExampleRecord ==
    all_lines \in {C7Example, C7Example \o <<LineBlank>>, C7Example \o <<LinePersonFam>>} =>
        /\ pc # "error"
        /\ pc = "done" =>
               \E k \in 1..Len(items) :
                   /\ get_year(items[k]) = <<"2", "0", "1", "9">>
                   /\ get_title(items[k]) = <<"B", "a", "r">>
                   /\ get_author(items[k]) = <<"S", "m", "i", "t", "h", ",", " ", "J", ".">>

RECURSIVE ClaimedBlocks(_)
ClaimedBlocks(list) ==
    IF list = <<>> THEN <<>>
    ELSE get_author(Head(list)) \o NL \o get_title(Head(list)) \o NL
         \o get_year(Head(list)) \o NL \o NL \o ClaimedBlocks(Tail(list))

\* C8: the report is the header line `<header> (<n>)`, a blank line, and for
\* every Record, the last one too, its author, title and year lines followed
\* by a blank line.
C8_ReportLayout ==
    out.op = "write" =>
        /\ out.ok
        /\ \E header \in Headers :
               out.text = header \o <<" ", "(">> \o int_str(Len(bibA)) \o <<")">> \o NL \o NL
                          \o ClaimedBlocks(bibA)

TagLines(ls) == {i \in 1..Len(ls) : ris_match(ls[i]).matched}
Tags(ls) == {ris_match(ls[i]).key : i \in TagLines(ls)}
LastWithTag(ls, tag) == Max({i \in TagLines(ls) : ris_match(ls[i]).key = tag})
FieldEnd(ls, i) == Min({j \in TagLines(ls) : j > i} \cup {Len(ls) + 1})

RECURSIVE Continuation(_, _, _)
Continuation(ls, from, to) ==
    IF from >= to THEN <<>> ELSE NL \o ls[from] \o Continuation(ls, from + 1, to)

\* the rest of tag line i and the lines up to the next tag line, each after a line break
FieldText(ls, i) == ris_match(ls[i]).datum \o Continuation(ls, i + 1, FieldEnd(ls, i))

C9Example == <<"T", "1", " ", " ", "-", " ", "F", "o", "o", "\n", "P", "Y", " ", " ", "-", " ", "2", "0", "2", "0", "\n", "A", "1", " ", " ", "-", " ", "J", "a", "n", "e", " ", "D", "o", "e", "\n">>

\* C9: in every chunk, each tag that occurs is stored with the rest of its
\* last tag line followed by the lines up to the next tag line or the end of
\* the chunk, each after a line break; nothing else is stored under a tag, so
\* the lines before the first tag line reach no field; and the example chunk
\* gives title "Foo", year "2020", author "Jane Doe".
C9_TaggedFieldsScan ==
    \A k \in 1..Len(items) :
        LET ls == split(sections[k], NL)
        IN  /\ DOMAIN items[k] \ {<<>>} = Tags(ls)
            /\ \A tag \in Tags(ls) : items[k][tag] = FieldText(ls, LastWithTag(ls, tag))
            /\ sections[k] = C9Example =>
                   /\ get_title(items[k]) = <<"F", "o", "o">>
                   /\ get_year(items[k]) = <<"2", "0", "2", "0">>
                   /\ get_author(items[k]) = <<"J", "a", "n", "e", " ", "D", "o", "e">>

\* C9 witness: the example chunk has been parsed: three tag lines, and the empty last
\* line appended to the author field
C9_Witness ==
    /\ pc = "done"
    /\ ris_data = C9Example
    /\ Len(items) = 1
    /\ items[1][KeyA1] = <<" ", "J", "a", "n", "e", " ", "D", "o", "e", "\n">>

\* 0-based index of the first blank line at or after line n, len(lines) if none
FirstBlankFrom(n) ==
    Min({k \in n..(Len(all_lines) - 1) : strip(all_lines[k + 1]) = <<>>} \cup {Len(all_lines)})

C10_CursorAdvances ==
    [][(pc = "scan" /\ pc' = "scan") =>
          /\ line_number' > line_number
          /\ line_number' <= Len(all_lines)
          /\ line_number' = IF HelperLabel(line) THEN FirstBlankFrom(line_number)
                            ELSE line_number + 1]_vars

C10_Bounded ==
    /\ iters <= Len(all_lines)
    /\ Len(items) <= Len(all_lines) + 1
    /\ \A i \in DOMAIN consumed : consumed[i] <= 1

\* C10: the fixed-field scan ends: every iteration that goes on moves the
\* cursor forward and never past the end (by one for a year or unlabelled
\* line, by the lines the helper consumed, at least one, for the others), so
\* N lines take at most N iterations, no line is consumed twice and at most
\* N + 1 Records are built.
C10_ScanAdvancesAndIsBounded == C10_CursorAdvances /\ []C10_Bounded

\* C10 witness: a finished scan in which the helper consumed two lines at once and an
\* entry was committed at a primary-author line
C10_Witness ==
    /\ pc = "done"
    /\ iters >= 2
    /\ iters < Len(all_lines)
    /\ Len(items) = 2

=============================================================================
